---------------------------- MODULE Spec2Model ----------------------------
(***************************************************************************)
(* Fuzzy sprinkler controller of fuzzy.py: two antecedents (Soil Moisture, *)
(* Temperature), one consequent (Water Sprinkling), nine triangular terms, *)
(* five Mamdani rules, centroid defuzzification, and the driver that feeds *)
(* ten test cases twice through one shared simulation object.              *)
(*                                                                         *)
(* Numbers.  Membership degrees are integers in units of 1/DegScale, and   *)
(* points of the upsampled output universe are integers in units of        *)
(* 1/XScale.  A crisp output is the exact rational int + num/den (a        *)
(* reduced fraction, 0 <= num < den); the float64 value of the program is  *)
(* the rounding of that rational.                                          *)
(***************************************************************************)
EXTENDS Integers, Sequences, FiniteSets, TLC

---------------------------------------------------------------------------
(* Universes: np.arange(0, 101, 1), np.arange(0, 51, 1), np.arange(0, 101, 1) *)
SoilMax == 100
TempMax == 50
SprinkleMax == 100

soil_universe == 0..SoilMax
temp_universe == 0..TempMax
sprinkle_universe == 0..SprinkleMax

(* 300 = lcm of the ramp widths 50, 30, 20, 15 of the nine terms *)
DegScale == 2 * 2 * 3 * 5 * 5
(* a cut at k/300 meets a ramp of width 50 at a multiple of 1/6 and a ramp *)
(* of width 30 at a multiple of 1/10, so 1/30 holds every added point      *)
XScale == 2 * 3 * 5

Min2(a, b) == IF a <= b THEN a ELSE b
Max2(a, b) == IF a >= b THEN a ELSE b

(* An intermediate result that is used more than once is bound by a       *)
(* quantifier over a one-element set, {e(v) : v \in {value}}, and taken    *)
(* out again with The: it is then computed once.                          *)
The(S) == CHOOSE v \in S : TRUE

RECURSIVE Gcd(_, _)
Gcd(a, b) == IF b = 0 THEN a ELSE The({ Gcd(b, r) : r \in {a % b} })

---------------------------------------------------------------------------
(* trimf without the assignment of 1 at x = b *)
trimf_noapex(x, abc) ==
    LET a == abc[1]
        b == abc[2]
        c == abc[3]
    IN  IF a /= b /\ a < x /\ x < b THEN ((x - a) * DegScale) \div (b - a)
        ELSE IF b /= c /\ b < x /\ x < c THEN ((c - x) * DegScale) \div (c - b)
        ELSE 0

(* fuzz.trimf(universe, [a, b, c]) at the sample point x *)
trimf(x, abc) ==
    LET a == abc[1]
        b == abc[2]
        c == abc[3]
    IN  IF x = b THEN DegScale
        ELSE IF a /= b /\ a < x /\ x < b THEN ((x - a) * DegScale) \div (b - a)
        ELSE IF b /= c /\ b < x /\ x < c THEN ((c - x) * DegScale) \div (c - b)
        ELSE 0

(* a term is the array trimf returns: its degree at every sample point *)
soil_moisture ==
    [dry |-> [x \in soil_universe |-> trimf(x, <<0, 0, 50>>)],
     moist |-> [x \in soil_universe |-> trimf(x, <<20, 50, 80>>)],
     wet |-> [x \in soil_universe |-> trimf(x, <<50, 100, 100>>)]]

temperature ==
    [cold |-> [x \in temp_universe |-> trimf(x, <<0, 0, 20>>)],
     warm |-> [x \in temp_universe |-> trimf(x, <<10, 25, 40>>)],
     hot |-> [x \in temp_universe |-> trimf(x, <<30, 50, 50>>)]]

water_sprinkle ==
    [low |-> [x \in sprinkle_universe |-> trimf(x, <<0, 0, 50>>)],
     medium |-> [x \in sprinkle_universe |-> trimf(x, <<20, 50, 80>>)],
     high |-> [x \in sprinkle_universe |-> trimf(x, <<50, 100, 100>>)]]

SprinkleTerms == DOMAIN water_sprinkle

(* a rule: the AND-connected antecedent leaves and the consequent term *)
rule1 == [ante |-> <<<<"soil", "dry">>, <<"temp", "hot">>>>, cons |-> "high"]
rule2 == [ante |-> <<<<"soil", "dry">>, <<"temp", "warm">>>>, cons |-> "medium"]
rule3 == [ante |-> <<<<"soil", "moist">>, <<"temp", "warm">>>>, cons |-> "medium"]
rule4 == [ante |-> <<<<"soil", "moist">>, <<"temp", "cold">>>>, cons |-> "low"]
(* rule5 with a temperature condition *)
rule5_cold == [ante |-> <<<<"soil", "wet">>, <<"temp", "cold">>>>, cons |-> "low"]
rule5 == [ante |-> <<<<"soil", "wet">>>>, cons |-> "low"]

sprinkle_ctrl == <<rule1, rule2, rule3, rule4, rule5>>

test_cases ==
    << <<30, 35>>, <<70, 20>>, <<10, 40>>, <<50, 10>>, <<80, 30>>,
       <<20, 45>>, <<90, 15>>, <<40, 25>>, <<15, 35>>, <<60, 5>> >>

---------------------------------------------------------------------------
(* Fuzzification of one antecedent leaf: the term's degree at the input *)
(* (interp_membership at a sample point of the universe)                *)
LeafDegree(leaf, inp) ==
    IF leaf[1] = "soil" THEN soil_moisture[leaf[2]][inp.soil]
    ELSE temperature[leaf[2]][inp.temp]

(* firing strength of a rule: fuzzy AND (np.fmin) over its leaves *)
RECURSIVE AndFold(_, _, _)
AndFold(ante, k, inp) ==
    IF k = Len(ante) THEN LeafDegree(ante[k], inp)
    ELSE Min2(LeafDegree(ante[k], inp), AndFold(ante, k + 1, inp))

(* the antecedent combined with | (np.fmax) instead of & *)
FiringOr(rule, inp) ==
    The({ d \in { LeafDegree(rule.ante[k], inp) : k \in DOMAIN rule.ante } :
            \A k \in DOMAIN rule.ante : d >= LeafDegree(rule.ante[k], inp) })

Firing(rule, inp) == AndFold(rule.ante, 1, inp)

(* membership value of a consequent term: no value until a rule sets it *)
NoCut == -1

(* accumulation that keeps the last activation only *)
AccumulateLast(old, act) == act

(* accumulation of one rule's activation into its term (np.fmax) *)
Accumulate(old, act) == IF old = NoCut THEN act ELSE Max2(old, act)

(* the rules are computed in order, each accumulating into its term *)
RECURSIVE ComputeRules(_, _, _)
ComputeRules(rs, k, inp) ==
    IF k = 0 THEN [t \in SprinkleTerms |-> NoCut]
    ELSE The({ [prev EXCEPT ![rs[k].cons] = Accumulate(prev[rs[k].cons], Firing(rs[k], inp))] :
               prev \in {ComputeRules(rs, k - 1, inp)} })

Cuts(rs, inp) == ComputeRules(rs, Len(rs), inp)

---------------------------------------------------------------------------
(* find_memberships: upsampling of the output universe and the aggregate *)

(* interp_universe: the points where the sampled term crosses level y *)
Above(mf, i, y) == IF y = 0 THEN mf[i] > y ELSE mf[i] >= y

interp_universe(mf, y) ==
    { i * XScale + ((y - mf[i]) * XScale) \div (mf[i + 1] - mf[i]) :
      i \in { j \in 0..(SprinkleMax - 1) : Above(mf, j, y) /= Above(mf, j + 1, y) } }

(* the terms some rule has given a membership value *)
CutTerms(cut) == { t \in SprinkleTerms : cut[t] /= NoCut }

(* the points the cuts add to the universe *)
AddUniverse(cut) ==
    UNION { interp_universe(water_sprinkle[t], cut[t]) : t \in CutTerms(cut) }

(* interp_membership: the sampled term, linearly interpolated, at point X *)
interp_membership(mf, X) ==
    LET i == X \div XScale
        fr == X % XScale
    IN  IF fr = 0 THEN mf[i]
        ELSE mf[i] + ((mf[i + 1] - mf[i]) * fr) \div XScale

(* output_mf: np.maximum over the terms of np.minimum(cut, term), from 0 *)
output_mf(cut, X) ==
    LET vals == { Min2(cut[t], interp_membership(water_sprinkle[t], X)) : t \in CutTerms(cut) }
                \cup {0}
    IN  CHOOSE v \in vals : \A w \in vals : v >= w

XEnd == SprinkleMax * XScale

(* the upsampled universe and the aggregate sampled on it *)
find_memberships(cut) ==
    The({ [add |-> add,
           mf |-> [X \in { i * XScale : i \in sprinkle_universe } \cup add |-> output_mf(cut, X)]] :
          add \in {AddUniverse(cut)} })

(* the successor of point X in the upsampled universe *)
NextPoint(X, add) ==
    LET grid == ((X \div XScale) + 1) * XScale
        between == { p \in add : p > X /\ p < grid }
    IN  IF between = {} THEN grid
        ELSE CHOOSE p \in between : \A q \in between : p <= q

---------------------------------------------------------------------------
(* defuzz / centroid.  The sums run over the upsampled universe in order;  *)
(* they are split by halves of the range of unit cells [i, i+1] to keep    *)
(* the evaluation shallow, and inside a cell they follow the added points. *)

(* twice the area of the segment [X1, X2], in units 1/(XScale*DegScale) *)
SegArea2(mf, X1, X2) == (X2 - X1) * (mf[X1] + mf[X2])

RECURSIVE CellArea2(_, _, _, _)
CellArea2(mf, add, X, end) ==
    IF X >= end THEN 0
    ELSE The({ SegArea2(mf, X, X2) + CellArea2(mf, add, X2, end) :
               X2 \in {NextPoint(X, add)} })

RECURSIVE RangeArea2(_, _, _, _)
RangeArea2(mf, add, lo, hi) ==
    IF hi - lo = 1 THEN CellArea2(mf, add, lo * XScale, hi * XScale)
    ELSE The({ RangeArea2(mf, add, lo, mid) + RangeArea2(mf, add, mid, hi) :
               mid \in {(lo + hi) \div 2} })

Area2(mf, add) == RangeArea2(mf, add, 0, SprinkleMax)

(* six times moment*area of the segment [X1, X2], same units times XScale *)
Moment6(mf, X1, X2) ==
    (X2 - X1) * (mf[X1] * (2 * X1 + X2) + mf[X2] * (X1 + 2 * X2))

(* sum_moment_area / sum_area = (sum Moment6) / (3 * XScale * Area2), kept *)
(* as quotient and remainder by d = 3 * XScale * Area2 so that no partial  *)
(* sum leaves 32 bits                                                      *)
AddDiv(m1, m2, d) ==
    The({ [q |-> a.q + b.q + (a.r + b.r) \div d, r |-> (a.r + b.r) % d] :
          a \in {m1}, b \in {m2} })

RECURSIVE CellMomentDiv(_, _, _, _, _)
CellMomentDiv(mf, add, X, end, d) ==
    IF X >= end THEN [q |-> 0, r |-> 0]
    ELSE The({ AddDiv([q |-> Moment6(mf, X, X2) \div d, r |-> Moment6(mf, X, X2) % d],
                      CellMomentDiv(mf, add, X2, end, d), d) :
               X2 \in {NextPoint(X, add)} })

RECURSIVE RangeMomentDiv(_, _, _, _, _)
RangeMomentDiv(mf, add, lo, hi, d) ==
    IF hi - lo = 1 THEN CellMomentDiv(mf, add, lo * XScale, hi * XScale, d)
    ELSE The({ AddDiv(RangeMomentDiv(mf, add, lo, mid, d),
                      RangeMomentDiv(mf, add, mid, hi, d), d) :
               mid \in {(lo + hi) \div 2} })

MomentDiv(mf, add, d) == RangeMomentDiv(mf, add, 0, SprinkleMax, d)

Rational(q, r, d) ==
    The({ [int |-> q, num |-> r \div g, den |-> d \div g] : g \in {Gcd(r, d)} })

(* centroid with the moment of a segment taken three times too large *)
centroid_no3(mf, add) ==
    The({ IF d = 0 THEN Rational(0, 0, 1)
          ELSE The({ Rational(m.q, m.r, d) : m \in {MomentDiv(mf, add, d)} }) :
          d \in {XScale * Area2(mf, add)} })

centroid(mf, add) ==
    The({ IF d = 0 THEN Rational(0, 0, 1)
          ELSE The({ Rational(m.q, m.r, d) : m \in {MomentDiv(mf, add, d)} }) :
          d \in {3 * XScale * Area2(mf, add)} })

(* defuzz without the test for zero total membership: 0 / eps *)
defuzz_nocheck(mf, add) == [kind |-> "value", val |-> centroid(mf, add)]

(* defuzz: zero total membership (mfx.sum() == 0) raises, else the centroid *)
defuzz(mf, add) ==
    IF \A X \in DOMAIN mf : mf[X] = 0 THEN [kind |-> "error"]
    ELSE [kind |-> "value", val |-> centroid(mf, add)]

(* CrispValueCalculator.defuzz for 'Water Sprinkling' under rule order rs *)
Infer(rs, inp) ==
    The({ defuzz(ups.mf, ups.add) :
          ups \in { find_memberships(cut) : cut \in {Cuts(rs, inp)} } })

---------------------------------------------------------------------------
(* The simulation object 'sprinkler' and the program around it *)

VARIABLES
    pc,            \* position in the program
    i,             \* loop index / number of finished compute() calls
    case,          \* loop variables (soil, temp)
    final,         \* the call under way is the last one of the call sequence
    input,         \* sprinkler.input
    output,        \* sprinkler.output['Water Sprinkling']
    outcome,       \* how the last compute() ended: "none", "value", "error"
    calculated,    \* inputs already computed, with the output cached for them
    rules,         \* the rule list the control system was built from
    first_pass,    \* outputs read in the first loop over test_cases
    report_pass,   \* outputs read in the report loop over test_cases
    error_printed, \* the except handler of the report has run
    sample         \* last membership degree drawn by view()

vars == <<pc, i, case, final, input, output, outcome, calculated, rules,
          first_pass, report_pass, error_printed, sample>>

NoValue == -1
NoCase == <<NoValue, NoValue>>
NoOutput == [int |-> NoValue, num |-> 0, den |-> 1]
NoSample == [var |-> "none", term |-> "none", x |-> NoValue, degree |-> NoValue]

(* state right after ControlSystemSimulation(sprinkle_ctrl) *)
Constructed(rs) ==
    /\ i = 0
    /\ case = NoCase
    /\ final = FALSE
    /\ input = [soil |-> NoValue, temp |-> NoValue]
    /\ output = NoOutput
    /\ outcome = "none"
    /\ calculated = << >>
    /\ rules = rs
    /\ first_pass = << >>
    /\ report_pass = << >>
    /\ error_printed = FALSE
    /\ sample = NoSample

(* sprinkler.input[...] = value *)
SetInput(var, v) == input' = [input EXCEPT ![var] = v]

InputKey == <<input.soil, input.temp>>

(* a cache hit that leaves sprinkler.output as it is *)
CachedOutputStale(key) == output

(* the cached answer for an input set computed before *)
CachedOutput(key) == calculated[key]

(* sprinkler.compute(): an input without value raises; an input set that   *)
(* was computed before is answered from the cache; otherwise the rules are *)
(* computed and the consequent defuzzified, which raises when no           *)
(* membership is left, and leaves output and cache as they were            *)
compute(onValue, onError) ==
    IF input.soil = NoValue \/ input.temp = NoValue
    THEN /\ outcome' = "error"
         /\ pc' = onError
         /\ UNCHANGED <<output, calculated>>
    ELSE IF InputKey \in DOMAIN calculated
    THEN /\ output' = CachedOutput(InputKey)
         /\ outcome' = "value"
         /\ pc' = onValue
         /\ UNCHANGED calculated
    ELSE \E res \in {Infer(rules, input)} :
             IF res.kind = "error"
             THEN /\ outcome' = "error"
                  /\ pc' = onError
                  /\ UNCHANGED <<output, calculated>>
             ELSE /\ output' = res.val
                  /\ outcome' = "value"
                  /\ pc' = onValue
                  /\ calculated' = [k \in DOMAIN calculated \cup {InputKey} |->
                                      IF k = InputKey THEN res.val ELSE calculated[k]]

---------------------------------------------------------------------------
(* Spec: Calls calls on one shared simulation object.  The earlier calls   *)
(* take the test cases in order, the last call takes any pair of sample    *)
(* points of the two input universes.                                      *)

Calls == 2

Init ==
    /\ pc = "head"
    /\ Constructed(sprinkle_ctrl)

EarlierCall ==
    /\ pc = "head"
    /\ i + 1 < Calls
    /\ i + 1 <= Len(test_cases)
    /\ case' = test_cases[i + 1]
    /\ pc' = "soil"
    /\ UNCHANGED <<i, final, input, output, outcome, calculated, rules,
                   first_pass, report_pass, error_printed, sample>>

LastCall ==
    /\ pc = "head"
    /\ i + 1 = Calls
    /\ \E s \in soil_universe, t \in temp_universe : case' = <<s, t>>
    /\ final' = TRUE
    /\ pc' = "soil"
    /\ UNCHANGED <<i, input, output, outcome, calculated, rules,
                   first_pass, report_pass, error_printed, sample>>

SetSoil ==
    /\ pc = "soil"
    /\ SetInput("soil", case[1])
    /\ pc' = "temp"
    /\ UNCHANGED <<i, case, final, output, outcome, calculated, rules,
                   first_pass, report_pass, error_printed, sample>>

SetTemp ==
    /\ pc = "temp"
    /\ SetInput("temp", case[2])
    /\ pc' = "compute"
    /\ UNCHANGED <<i, case, final, output, outcome, calculated, rules,
                   first_pass, report_pass, error_printed, sample>>

Compute ==
    /\ pc = "compute"
    /\ compute("read", "raised")
    /\ UNCHANGED <<i, case, final, input, rules,
                   first_pass, report_pass, error_printed, sample>>

Read ==
    /\ pc = "read"
    /\ first_pass' = Append(first_pass, output)
    /\ i' = i + 1
    /\ pc' = IF final THEN "done" ELSE "head"
    /\ UNCHANGED <<case, final, input, output, outcome, calculated, rules,
                   report_pass, error_printed, sample>>

Next == EarlierCall \/ LastCall \/ SetSoil \/ SetTemp \/ Compute \/ Read

Spec == Init /\ [][Next]_vars

---------------------------------------------------------------------------
(* SpecDriver: the script, from the membership plots to the cleanup.  The  *)
(* plot, file and PDF operations are steps that succeed; what they write   *)
(* is not part of the state.                                               *)

InitDriver ==
    /\ pc = "plots"
    /\ Constructed(sprinkle_ctrl)

(* lines 43-66: the three membership plots *)
Plots ==
    /\ pc = "plots"
    /\ pc' = "for1"
    /\ UNCHANGED <<i, case, final, input, output, outcome, calculated, rules,
                   first_pass, report_pass, error_printed, sample>>

(* for i, (soil, temp) in enumerate(test_cases) *)
For1 ==
    /\ pc = "for1"
    /\ IF i < Len(test_cases)
       THEN /\ case' = test_cases[i + 1]
            /\ pc' = "soil1"
            /\ i' = i
       ELSE /\ pc' = "pdf"
            /\ i' = 0
            /\ case' = case
    /\ UNCHANGED <<final, input, output, outcome, calculated, rules,
                   first_pass, report_pass, error_printed, sample>>

SetSoil1 ==
    /\ pc = "soil1"
    /\ SetInput("soil", case[1])
    /\ pc' = "temp1"
    /\ UNCHANGED <<i, case, final, output, outcome, calculated, rules,
                   first_pass, report_pass, error_printed, sample>>

SetTemp1 ==
    /\ pc = "temp1"
    /\ SetInput("temp", case[2])
    /\ pc' = "compute1"
    /\ UNCHANGED <<i, case, final, output, outcome, calculated, rules,
                   first_pass, report_pass, error_printed, sample>>

(* the first loop is in no try block: an exception ends the script *)
Compute1 ==
    /\ pc = "compute1"
    /\ compute("title", "crashed")
    /\ UNCHANGED <<i, case, final, input, rules,
                   first_pass, report_pass, error_printed, sample>>

(* the plot title reads sprinkler.output['Water Sprinkling'] *)
Title ==
    /\ pc = "title"
    /\ first_pass' = Append(first_pass, output)
    /\ pc' = "savefig"
    /\ UNCHANGED <<i, case, final, input, output, outcome, calculated, rules,
                   report_pass, error_printed, sample>>

SaveFig ==
    /\ pc = "savefig"
    /\ i' = i + 1
    /\ pc' = "for1"
    /\ UNCHANGED <<case, final, input, output, outcome, calculated, rules,
                   first_pass, report_pass, error_printed, sample>>

(* lines 102-248: the report up to the test results page *)
PdfSetup ==
    /\ pc = "pdf"
    /\ pc' = "for2"
    /\ UNCHANGED <<i, case, final, input, output, outcome, calculated, rules,
                   first_pass, report_pass, error_printed, sample>>

For2 ==
    /\ pc = "for2"
    /\ IF i < Len(test_cases)
       THEN /\ case' = test_cases[i + 1]
            /\ pc' = "soil2"
            /\ i' = i
       ELSE /\ pc' = "conclusion"
            /\ i' = 0
            /\ case' = case
    /\ UNCHANGED <<final, input, output, outcome, calculated, rules,
                   first_pass, report_pass, error_printed, sample>>

SetSoil2 ==
    /\ pc = "soil2"
    /\ SetInput("soil", case[1])
    /\ pc' = "temp2"
    /\ UNCHANGED <<i, case, final, output, outcome, calculated, rules,
                   first_pass, report_pass, error_printed, sample>>

(* the report loop without the assignment of 'Temperature' *)
SetTemp2Skip ==
    /\ pc = "temp2"
    /\ pc' = "compute2"
    /\ UNCHANGED <<i, case, final, input, output, outcome, calculated, rules,
                   first_pass, report_pass, error_printed, sample>>

SetTemp2 ==
    /\ pc = "temp2"
    /\ SetInput("temp", case[2])
    /\ pc' = "compute2"
    /\ UNCHANGED <<i, case, final, output, outcome, calculated, rules,
                   first_pass, report_pass, error_printed, sample>>

(* the report loop is inside try: an exception goes to the handler *)
Compute2 ==
    /\ pc = "compute2"
    /\ compute("analysis", "except")
    /\ UNCHANGED <<i, case, final, input, rules,
                   first_pass, report_pass, error_printed, sample>>

(* the analysis text reads sprinkler.output['Water Sprinkling'] *)
Analysis ==
    /\ pc = "analysis"
    /\ report_pass' = Append(report_pass, output)
    /\ pc' = "image"
    /\ UNCHANGED <<i, case, final, input, output, outcome, calculated, rules,
                   first_pass, error_printed, sample>>

Image ==
    /\ pc = "image"
    /\ i' = i + 1
    /\ pc' = "for2"
    /\ UNCHANGED <<case, final, input, output, outcome, calculated, rules,
                   first_pass, report_pass, error_printed, sample>>

(* lines 277-287 *)
Conclusion ==
    /\ pc = "conclusion"
    /\ pc' = "cleanup"
    /\ UNCHANGED <<i, case, final, input, output, outcome, calculated, rules,
                   first_pass, report_pass, error_printed, sample>>

(* lines 289-293: the handler prints the error, then plt.close('all') *)
Cleanup ==
    /\ pc \in {"cleanup", "except"}
    /\ error_printed' = (pc = "except")
    /\ pc' = "done"
    /\ UNCHANGED <<i, case, final, input, output, outcome, calculated, rules,
                   first_pass, report_pass, sample>>

NextDriver ==
    \/ Plots \/ For1 \/ SetSoil1 \/ SetTemp1 \/ Compute1 \/ Title \/ SaveFig
    \/ PdfSetup \/ For2 \/ SetSoil2 \/ SetTemp2 \/ Compute2 \/ Analysis \/ Image
    \/ Conclusion \/ Cleanup

SpecDriver == InitDriver /\ [][NextDriver]_vars

(* the script is one sequential process that runs until it ends *)
FairDriver == SpecDriver /\ WF_vars(NextDriver)

---------------------------------------------------------------------------
(* SpecView: view() draws every term of a variable over its universe *)

Variables ==
    [soil |-> soil_moisture, temp |-> temperature, sprinkle |-> water_sprinkle]

InitView ==
    /\ pc = "view"
    /\ Constructed(sprinkle_ctrl)

View ==
    /\ pc = "view"
    /\ \E v \in DOMAIN Variables :
         \E t \in DOMAIN Variables[v] :
           \E x \in DOMAIN Variables[v][t] :
             sample' = [var |-> v, term |-> t, x |-> x, degree |-> Variables[v][t][x]]
    /\ UNCHANGED <<pc, i, case, final, input, output, outcome, calculated, rules,
                   first_pass, report_pass, error_printed>>

NextView == View

SpecView == InitView /\ [][NextView]_vars

---------------------------------------------------------------------------
(* SpecPerm: the control system built from a reordered rule list, then one *)
(* call with inputs on a grid of the two universes                         *)

GridStep == 10

InitPerm ==
    /\ pc = "build"
    /\ Constructed(sprinkle_ctrl)

(* exchange two neighbours of the list passed to ctrl.ControlSystem *)
Swap ==
    /\ pc = "build"
    /\ \E k \in 1..(Len(rules) - 1) :
         rules' = [rules EXCEPT ![k] = rules[k + 1], ![k + 1] = rules[k]]
    /\ UNCHANGED <<pc, i, case, final, input, output, outcome, calculated,
                   first_pass, report_pass, error_printed, sample>>

GridCall ==
    /\ pc = "build"
    /\ \E s \in { u \in soil_universe : u % GridStep = 0 },
          t \in { u \in temp_universe : u % GridStep = 0 } : case' = <<s, t>>
    /\ final' = TRUE
    /\ pc' = "soil"
    /\ UNCHANGED <<i, input, output, outcome, calculated, rules,
                   first_pass, report_pass, error_printed, sample>>

NextPerm == Swap \/ GridCall \/ SetSoil \/ SetTemp \/ Compute \/ Read

SpecPerm == InitPerm /\ [][NextPerm]_vars

---------------------------------------------------------------------------
(* Properties *)

(* comparisons of a crisp output int + num/den with an integer n *)
Greater(o, n) == o.int > n \/ (o.int = n /\ o.num > 0)
Less(o, n) == o.int < n
AtMost(o, n) == o.int < n \/ (o.int = n /\ o.num = 0)
AtLeast(o, n) == o.int >= n
Defined(o) == o /= NoOutput /\ o.den > 0 /\ o.num >= 0 /\ o.num < o.den

(* compute() has just returned or raised *)
AfterCompute == pc \in {"read", "raised"}

FiringSet(inp) == { Firing(sprinkle_ctrl[k], inp) : k \in DOMAIN sprinkle_ctrl }
NoRuleFires(inp) == FiringSet(inp) = {0}

(* the engine's arithmetic is exact in the chosen units: every added point *)
(* is a multiple of 1/XScale, and at an added point a term whose           *)
(* interpolated degree is no multiple of 1/DegScale does not decide the    *)
(* aggregate (its cut is lower, or another term is higher)                 *)
ExactAt(cut) ==
    /\ \A t \in CutTerms(cut) :
         \A j \in 0..(SprinkleMax - 1) :
           LET mf == water_sprinkle[t]
           IN  Above(mf, j, cut[t]) /= Above(mf, j + 1, cut[t])
                 => ((cut[t] - mf[j]) * XScale) % Max2(mf[j + 1] - mf[j], mf[j] - mf[j + 1]) = 0
    /\ \A X \in AddUniverse(cut) :
         \A t \in CutTerms(cut) :
           LET mf == water_sprinkle[t]
               j == X \div XScale
           IN  X % XScale /= 0
                 => \/ ((mf[j + 1] - mf[j]) * (X % XScale)) % XScale = 0
                    \/ cut[t] <= interp_membership(mf, X)
                    \/ output_mf(cut, X) > interp_membership(mf, X)

ExactArithmetic == AfterCompute => ExactAt(Cuts(rules, input))

(* C1: with soil moisture exactly 50, compute() does not raise for any    *)
(* temperature of the universe and leaves a defined, finite output        *)
C1_Boundary50 ==
    (AfterCompute /\ final /\ input.soil = 50)
        => (pc = "read" /\ outcome = "value" /\ Defined(output))

(* C2: when no rule fires for the inputs, compute() ends in the error     *)
(* outcome; nothing is read as its result, neither 0 nor the output left  *)
(* by an earlier compute()                                                *)
C2_NoRuleIsError ==
    (AfterCompute /\ NoRuleFires(input))
        => (pc = "raised" /\ outcome = "error" /\ Len(first_pass) = i)

C2_Witness ==
    /\ pc = "raised"
    /\ NoRuleFires(input)
    /\ i >= 1
    /\ output /= NoOutput

(* C3: the crisp output of the four reference inputs lies in its band:    *)
(* (10,40) above 65, (90,15) below 20, (50,25) from 35 to 55, (50,10)     *)
(* below 25                                                               *)
C3_ReferenceBands ==
    (AfterCompute /\ final) =>
        /\ InputKey = <<10, 40>> => (pc = "read" /\ Greater(output, 65))
        /\ InputKey = <<90, 15>> => (pc = "read" /\ Less(output, 20))
        /\ InputKey = <<50, 25>> => (pc = "read" /\ AtLeast(output, 35) /\ AtMost(output, 55))
        /\ InputKey = <<50, 10>> => (pc = "read" /\ Less(output, 25))

C3_Witness ==
    /\ pc = "read"
    /\ final
    /\ InputKey = <<10, 40>>
    /\ output = [int |-> 80, num |-> 5, den |-> 9]

(* C4: whenever a rule fires, the centroid output lies in the output      *)
(* universe, 0 <= output <= 100                                           *)
C4_OutputInUniverse ==
    (AfterCompute /\ ~NoRuleFires(input))
        => (pc = "read" /\ Defined(output) /\ AtLeast(output, 0) /\ AtMost(output, SprinkleMax))

C4_Witness ==
    /\ pc = "read"
    /\ final
    /\ InputKey = <<0, 50>>
    /\ output.int = 83

(* C5: in the report loop every test case gets the output it got in the   *)
(* first loop, with the computes of the other cases in between            *)
C5_SameOutputBothPasses ==
    /\ \A k \in DOMAIN report_pass :
         k \in DOMAIN first_pass /\ report_pass[k] = first_pass[k]
    /\ pc = "done" => Len(report_pass) = Len(test_cases)

C5_Witness ==
    /\ pc = "done"
    /\ report_pass = first_pass
    /\ Len(report_pass) = Len(test_cases)
    /\ \E j, k \in DOMAIN first_pass : first_pass[j] /= first_pass[k]

(* C6: at soil moisture 90 only rule5 fires, and the output is below 20   *)
(* and the same for every temperature                                     *)
C6_WetIgnoresTemperature ==
    (AfterCompute /\ final /\ input.soil = 90) =>
        /\ pc = "read"
        /\ Less(output, 20)
        /\ output = Infer(sprinkle_ctrl, [soil |-> 90, temp |-> 0]).val
        /\ Firing(rule5, input) > 0
        /\ \A r \in {rule1, rule2, rule3, rule4} : Firing(r, input) = 0

C6_Witness ==
    /\ pc = "read"
    /\ final
    /\ InputKey = <<90, 45>>
    /\ Less(output, 20)

(* C7: for every order of the rule list, the aggregate curve and the      *)
(* outcome of the call are those of the original order                    *)
C7_OrderIrrelevant ==
    AfterCompute =>
        LET orig == Infer(sprinkle_ctrl, input)
        IN  /\ find_memberships(Cuts(rules, input)) = find_memberships(Cuts(sprinkle_ctrl, input))
            /\ orig.kind = "error" => (pc = "raised" /\ outcome = "error")
            /\ orig.kind = "value" => (pc = "read" /\ outcome = "value" /\ output = orig.val)

C7_Witness ==
    /\ pc = "read"
    /\ rules = <<rule5, rule4, rule3, rule2, rule1>>
    /\ InputKey = <<30, 20>>
    /\ Firing(rule2, input) /= Firing(rule3, input)

(* breakpoints [a, b, c] of the nine terms *)
Breakpoints ==
    [soil |-> [dry |-> <<0, 0, 50>>, moist |-> <<20, 50, 80>>, wet |-> <<50, 100, 100>>],
     temp |-> [cold |-> <<0, 0, 20>>, warm |-> <<10, 25, 40>>, hot |-> <<30, 50, 50>>],
     sprinkle |-> [low |-> <<0, 0, 50>>, medium |-> <<20, 50, 80>>, high |-> <<50, 100, 100>>]]

(* C8: a term's degree is in [0,1], 0 outside [a,c], 1 at b (also when    *)
(* a = b or b = c), (x-a)/(b-a) on a <= x < b and (c-x)/(c-b) on          *)
(* b < x <= c                                                             *)
C8_TriangularDegree ==
    sample /= NoSample =>
        LET abc == Breakpoints[sample.var][sample.term]
            a == abc[1]
            b == abc[2]
            c == abc[3]
            x == sample.x
            d == sample.degree
        IN  /\ d \in 0..DegScale
            /\ (x < a \/ x > c) => d = 0
            /\ x = b => d = DegScale
            /\ (a <= x /\ x < b) => d * (b - a) = (x - a) * DegScale
            /\ (b < x /\ x <= c) => d * (c - b) = (c - x) * DegScale

C8_Witness ==
    /\ sample.var = "temp"
    /\ sample.term = "hot"
    /\ sample.x = TempMax
    /\ sample.degree = DegScale

(* C9: for every pair of sample points of the input universes some rule   *)
(* fires, so compute() never raises                                       *)
C9_RuleCoverage ==
    /\ pc /= "raised"
    /\ AfterCompute => ~NoRuleFires(input)

===========================================================================
